---- MODULE Spec2Model ----
(***************************************************************************)
(* A model of scripts/mcu_build_and_copy.py: the search for the build     *)
(* root (find_build_axon), and the pipeline of main (layout, dry-run      *)
(* report, directory change, build tool, artifact gate, staging); and of   *)
(* scripts/update_telechips_cgw_rev.py: the stamping of a commit          *)
(* identifier into a recipe file.                                         *)
(*                                                                         *)
(* A path is the sequence of its components: <<>> is the filesystem root, *)
(* <<"a", "b">> is /a/b.  The directory tree the search reads is the      *)
(* state (dirs, files, denied).  What lies under the resolved build root  *)
(* is read by the program one fact at a time; each such fact is drawn at  *)
(* the step that reads it and kept in the state from then on.             *)
(***************************************************************************)
EXTENDS Integers, Sequences, FiniteSets, TLC

\* ------------------------------------------------------------ constants

BUILD_AXON_FOLDER == "build-axon"
LINUX_YP_PATH == "linux_yp4.0_cgw_1.x.x_dev"
BOOT_FIRMWARE_FOLDER_DST == "boot-firmware_tcn1000"
MCU_BUILD_SUFFIX ==
    << LINUX_YP_PATH, "build", "tcn1000-mcu", "tmp", "work",
       "cortexm7-telechips-linux-musleabi", "m7-1", "1.0.0-r0", "git" >>
ROM_NAME == "tcn100x_snor.rom"

\* find_boot_dir's candidates, in its order
BootCandidates == << "boot-firmware-tcn100x", "boot-firmware_tcn100x" >>

DefaultTimeout == 60

RcSuccess == 0
RcNotFound == 4
RcNoMcuDir == 5
RcChdirFailed == 6
RcNoBootDir == 7
RcNoRom == 8
RcStale == 9
RcCopyFailed == 10
RcMakeMissing == 127

\* find_build_axon's None
None == << "None" >>

\* ---------------------------------------------------------------- bounds

\* the start path has at most this many components
MaxStartLen == 2
\* build-axon directories are placed at most this deep below the start path
MaxBelow == 3
\* at most this many build-axon directories in the tree of a search
MaxMarks == 2
\* at most this many build-axon directories in the tree of a whole run
MaxMarksRun == 1
\* and these are placed at most this deep below the start path
MaxBelowRun == 2
\* the build tool ends with a status in 0..MaxMakeRc
MaxMakeRc == 10

\* names of directory entries other than build-axon
Names == {"a", "b"}

\* ------------------------------------------------------------- variables

VARIABLES
    dirs,       \* the directories of the tree
    files,      \* the regular files of the tree
    denied,     \* the directories os.listdir may not read (PermissionError)
    start,      \* abs_start_path
    pc,         \* where the run is
    todo1,      \* entries of os.listdir(abs_start_path) not yet visited
    p1,         \* the depth-1 directory being listed
    todo2,      \* entries of os.listdir(p1) not yet visited
    result,     \* build_axon_path, None until found
    foundBy,    \* the test that found it: "up", "direct", "depth1", "depth2"
    dry_run, force_copy, timeout,      \* args
    cwd,        \* the process's working directory
    mcuDir,     \* os.path.isdir(mcu_build_path) as read: "unread", "dir", "absent"
    chdirState, \* os.chdir(mcu_build_path): "none" (not called), "ok", "failed"
    makeCalls,  \* how often the build tool was started
    makeFound,  \* whether 'make' was on the PATH
    make_rc,    \* run_make's return value
    boot,       \* per candidate of find_boot_dir: "unread", "absent", "empty", "rom"
    romAge,     \* now - mtime of the artifact, in seconds
    vanished,   \* the artifact was removed between os.path.exists and getmtime
    gateRan,    \* check_and_copy_rom was called
    rom_path,   \* index of the boot directory the artifact is taken from, 0: none
    destDir,    \* dest_dir on disk: "absent", "dir", "file" (a regular file)
    destFile,   \* content of dest_path, "none" when there is no such file
    mkdirCalls, \* how often os.makedirs was called
    copyState,  \* shutil.copy2: "none" (not called), "ok", "failed"
    raised,     \* the exception that escaped main, "none" otherwise
    rc,         \* main's return value, meaningful when pc = "exit"
    before,     \* the filesystem and working directory when the run started
    \* update_telechips_cgw_rev.py
    rpc,        \* where the run of the stamping utility is
    argc,       \* len(sys.argv)
    RECIPE_PN,  \* sys.argv[1]
    srcTree,    \* SRC_TREE_PATH on disk: "dir", "absent"
    incFile,    \* INC_FILE on disk: its lines, NoFile when it is no file
    backupFile, \* backup_file on disk: its lines, NoFile when it is no file
    COMMIT_ID,  \* what git rev-parse HEAD printed
    TARGET_VAR, \* RECIPE_VAR_MAP.get(RECIPE_PN)
    content,    \* INC_FILE as read
    new_lines,  \* the lines to write
    updated,    \* some line matched
    written,    \* the overwrite of INC_FILE: "none" (not tried), "ok", "failed"
    revRaised,  \* the exception that escaped the utility's main, "none" otherwise
    revRc       \* the utility's exit status, meaningful when rpc = "exit"

vars == << dirs, files, denied, start, pc, todo1, p1, todo2, result, foundBy,
           dry_run, force_copy, timeout, cwd, mcuDir, chdirState, makeCalls,
           makeFound, make_rc, boot, romAge, vanished, gateRan, rom_path, destDir,
           destFile, mkdirCalls, copyState, raised, rc, before,
           rpc, argc, RECIPE_PN, srcTree, incFile, backupFile, COMMIT_ID,
           TARGET_VAR, content, new_lines, updated, written, revRaised, revRc >>

searchVars == << todo1, p1, todo2, result, foundBy >>
treeVars == << dirs, files, denied, start >>
argVars == << dry_run, force_copy, timeout >>
buildVars == << mcuDir, chdirState, makeCalls, makeFound, make_rc >>
gateVars == << boot, romAge, vanished, gateRan, rom_path >>
stageVars == << destDir, destFile, mkdirCalls, copyState >>
revVars == << rpc, argc, RECIPE_PN, srcTree, incFile, backupFile, COMMIT_ID,
              TARGET_VAR, content, new_lines, updated, written, revRaised, revRc >>

\* ----------------------------------------------------------------- paths

Prefixes(p) == { SubSeq(p, 1, n) : n \in 0..Len(p) }

Join(p, name) == Append(p, name)

\* os.path.isdir
IsDir(p) == p \in dirs

\* os.listdir(p): the names of the entries of p
ListDir(p) ==
    { q[Len(q)] : q \in { e \in dirs \cup files :
                            Len(e) = Len(p) + 1 /\ SubSeq(e, 1, Len(p)) = p } }

\* abs_start_path.split(os.sep): "/" gives ['', ''], "/a/b" gives ['', 'a', 'b']
Parts(p) == IF p = << >> THEN << "", "" >> ELSE << "" >> \o p

\* os.sep.join(parts[:i]), with os.path.abspath(os.sep) for the empty string:
\* the path whose components are the non-empty strings of parts[:i]
Candidate(parts, i) ==
    LET NonEmpty(s) == s # ""
    IN  SelectSeq(SubSeq(parts, 1, i), NonEmpty)

\* the upward loop scanning from the shallowest prefix (a mutation)
RECURSIVE UpScanFromRoot(_, _)
UpScanFromRoot(parts, i) ==
    IF i > Len(parts) THEN None
    ELSE IF IsDir(Join(Candidate(parts, i), BUILD_AXON_FOLDER))
         THEN Join(Candidate(parts, i), BUILD_AXON_FOLDER)
         ELSE UpScanFromRoot(parts, i + 1)

\* the upward loop: for i in range(len(parts), 0, -1), first match returned
RECURSIVE UpScan(_, _)
UpScan(parts, i) ==
    IF i = 0 THEN None
    ELSE IF IsDir(Join(Candidate(parts, i), BUILD_AXON_FOLDER))
         THEN Join(Candidate(parts, i), BUILD_AXON_FOLDER)
         ELSE UpScan(parts, i - 1)

SearchUpwardsShallowFirst(p) == UpScanFromRoot(Parts(p), 1)

\* phase 1 of find_build_axon
SearchUpwards(p) == UpScan(Parts(p), Len(Parts(p)))

\* ------------------------------------------------------------ the trees

\* the start paths: /, /a, /a/b, ... (the names of the ancestors do not matter)
Spine == [ i \in 1..MaxStartLen |-> IF i % 2 = 1 THEN "a" ELSE "b" ]
StartPaths == { SubSeq(Spine, 1, n) : n \in 0..MaxStartLen }

RECURSIVE PathsOfLen(_)
PathsOfLen(n) ==
    IF n = 0 THEN { << >> }
    ELSE { Append(p, x) : p \in PathsOfLen(n - 1), x \in Names }

\* the directories below s, to the given depth
Below(s, depth) == UNION { { s \o q : q \in PathsOfLen(n) } : n \in 1..depth }

\* where a build-axon directory may be: in an ancestor of s, in s, or below it
MarkParents(s, depth) == Prefixes(s) \cup Below(s, depth)

Closure(ps) == UNION { Prefixes(p) : p \in ps }

\* one more entry in s or in a child of s: a regular file
Decoys(s, ds) ==
    { Join(p, x) : p \in ({ s } \cup { Join(s, n) : n \in Names }) \cap ds,
                   x \in Names \cup { BUILD_AXON_FOLDER } } \ ds

\* the subsets of S with at most k elements
RECURSIVE SubsetsUpTo(_, _)
SubsetsUpTo(S, k) ==
    IF k = 0 THEN { { } }
    ELSE LET smaller == SubsetsUpTo(S, k - 1)
         IN  smaller \cup { m \cup { x } : m \in smaller, x \in S }

\* A tree with at most maxMarks build-axon directories, at most maxBelow deep
\* below the start path.  The start path is a directory, a regular file in an
\* existing directory, or missing; at most one more regular file or one
\* unreadable directory is added.
TreeInit(maxMarks, maxBelow) ==
    \E s \in StartPaths :
    \E marks \in SubsetsUpTo(MarkParents(s, maxBelow), maxMarks) :
    \E kind \in { "dir", "file", "missing" } :
        LET marked == Closure({ Join(m, BUILD_AXON_FOLDER) : m \in marks })
            ds == marked \cup
                  (CASE kind = "dir" -> Prefixes(s)
                     [] kind = "file" -> Prefixes(SubSeq(s, 1, Len(s) - 1))
                     [] kind = "missing" -> { << >> })
        IN  /\ kind # "dir" => s \notin ds
            /\ start = s
            /\ dirs = ds
            /\ \E extra \in { "none", "file", "denied" } :
                 /\ files \in
                      IF kind = "file" THEN { { s } }
                      ELSE IF extra = "file" THEN { { f } : f \in Decoys(s, ds) }
                      ELSE { { } }
                 /\ denied \in
                      IF extra = "denied"
                      THEN { { d } : d \in ({ s } \cup { Join(s, n) : n \in Names }) \cap ds }
                      ELSE { { } }

\* ---------------------------------------- update_telechips_cgw_rev.py: data

\* len(sys.argv) the utility asks for
ArgCount == 4

\* sys.exit(1)
RevError == 1

AUTOREV == "${AUTOREV}"

\* TARGET_VAR = None
NoVar == "None"

RECIPE_VAR_MAP(name) ==
    CASE name = "linux-telechips" -> "KERNEL_BRANCH_DEV_SRC"
      [] name \in { "m7-0", "m7-1", "m7-2", "m7-np" } -> "MCU_BRANCH_DEV_SRC"
      [] name = "dpi-app" -> "DPI_APP_BRANCH_DEV_SRC"
      [] name = "tpa-app" -> "TPA_APP_BRANCH_DEV_SRC"
      [] name = "u-boot-tcc" -> "UBOOT_BRANCH_DEV_SRC"
      [] OTHER -> NoVar

\* a file on disk with these lines, and a path that is no file
File(lines) == [ isfile |-> TRUE, lines |-> lines ]
NoFile == [ isfile |-> FALSE, lines |-> << >> ]

\* the recipe names a run is started with
Recipes == { "linux-telechips", "m7-1", "busybox" }

\* the commit identifier git prints, and one a line was pinned to before
HeadCommit == "0a1b2c3"
PinnedCommit == "9f8e7d6"

\* a line of the recipe file is an assignment: variable, operator, value
LineKinds ==
    [ var : { "KERNEL_BRANCH_DEV_SRC", "MCU_BRANCH_DEV_SRC" },
      op : { "?=", "=", "+=" },
      value : { AUTOREV, PinnedCommit } ]

\* the recipe file has at most this many lines
MaxLines == 2

Contents == UNION { [ 1..n -> LineKinds ] : n \in 0..MaxLines }

\* lines 94-96, 102: pattern.match(line)
Matches(line, target) ==
    /\ line.var = target
    /\ line.op \in { "=", "?=", ":=" }
    /\ line.value = AUTOREV

\* line 112: the line with the commit identifier for ${AUTOREV}
NewLine(line, commit) == [ var |-> line.var, op |-> "=", value |-> commit ]

\* lines 98-121: new_lines and updated
Stamp(lines, target, commit) ==
    [ i \in 1..Len(lines) |->
        IF Matches(lines[i], target) THEN NewLine(lines[i], commit) ELSE lines[i] ]

Updated(lines, target) == \E i \in 1..Len(lines) : Matches(lines[i], target)

\* the stamping utility is not running
RevIdle ==
    /\ rpc = "idle"
    /\ argc = ArgCount /\ RECIPE_PN = "busybox" /\ srcTree = "absent"
    /\ incFile = NoFile /\ backupFile = NoFile
    /\ COMMIT_ID = "none" /\ TARGET_VAR = NoVar
    /\ content = << >> /\ new_lines = << >> /\ updated = FALSE
    /\ written = "none" /\ revRaised = "none" /\ revRc = 0

\* ---------------------------------------------------------------- Init

Dests == { << "absent", "none" >>, << "file", "none" >>,
           << "dir", "none" >>, << "dir", "rom-old" >> }

Timeouts == { 0, DefaultTimeout }

Ages == { 0, 1, 10, DefaultTimeout, DefaultTimeout + 1 }

RunInit ==
    /\ pc = "up"
    /\ todo1 = { } /\ p1 = << >> /\ todo2 = { }
    /\ result = None /\ foundBy = "none"
    /\ cwd = start
    /\ mcuDir = "unread" /\ chdirState = "none"
    /\ makeCalls = 0 /\ makeFound = TRUE /\ make_rc = 0
    /\ boot = [ i \in 1..Len(BootCandidates) |-> "unread" ]
    /\ romAge = 0 /\ vanished = FALSE /\ gateRan = FALSE /\ rom_path = 0
    /\ mkdirCalls = 0 /\ copyState = "none"
    /\ raised = "none" /\ rc = 0
    /\ before = [ dirs |-> dirs, files |-> files, cwd |-> cwd,
                  destDir |-> destDir, destFile |-> destFile ]
    /\ RevIdle

\* the build-axon directories of the tree
BuildAxonDirs == { d \in dirs \ { << >> } : d[Len(d)] = BUILD_AXON_FOLDER }

\* a search alone: any tree, the arguments of main fixed
InitFind ==
    /\ TreeInit(MaxMarks, MaxBelow)
    /\ dry_run = FALSE /\ force_copy = FALSE /\ timeout = DefaultTimeout
    /\ destDir = "absent" /\ destFile = "none"
    /\ RunInit

\* a whole run: parse_args and the filesystem the run starts in
Init ==
    /\ TreeInit(MaxMarksRun, MaxBelowRun)
    /\ dry_run \in BOOLEAN /\ force_copy \in BOOLEAN /\ timeout \in Timeouts
    /\ \E d \in Dests :
         /\ destDir = d[1] /\ destFile = d[2]
         \* the destination lies under a build-axon directory
         /\ BuildAxonDirs = { } => d[1] = "absent"
    /\ RunInit

\* ------------------------------------------------------ find_build_axon

mainVars == << argVars, cwd, buildVars, gateVars, stageVars, before >>

\* an exception escapes main: main returns nothing, the interpreter prints a
\* traceback
Crash(exception) ==
    /\ raised' = exception
    /\ pc' = "crash"
    /\ UNCHANGED rc

Found(path, by) ==
    /\ result' = path
    /\ foundBy' = by
    /\ pc' = "resolved"

\* lines 46-57: the upward phase
SearchUp ==
    /\ pc = "up"
    /\ IF SearchUpwards(start) # None
       THEN Found(SearchUpwards(start), "up")
       ELSE pc' = "down" /\ UNCHANGED << result, foundBy >>
    /\ UNCHANGED << revVars, treeVars, todo1, p1, todo2, raised, rc, mainVars >>

\* lines 60-63: the test directly under the start path, then os.listdir of it
SearchDown ==
    /\ pc = "down"
    /\ IF IsDir(Join(start, BUILD_AXON_FOLDER))
       THEN Found(Join(start, BUILD_AXON_FOLDER), "direct")
            /\ UNCHANGED << todo1, raised, rc >>
       ELSE IF ~IsDir(start)
       THEN \* os.listdir raises; only PermissionError is caught
            /\ Crash(IF start \in files THEN "NotADirectoryError"
                                         ELSE "FileNotFoundError")
            /\ UNCHANGED << todo1, result, foundBy >>
       ELSE IF start \in denied
       THEN \* except PermissionError: pass; return None
            /\ pc' = "resolved"
            /\ UNCHANGED << todo1, result, foundBy, raised, rc >>
       ELSE /\ todo1' = ListDir(start)
            /\ pc' = "d1"
            /\ UNCHANGED << result, foundBy, raised, rc >>
    /\ UNCHANGED << revVars, treeVars, p1, todo2, mainVars >>

\* the depth-1 loop with the test of a depth-1 directory left out (a mutation)
D1StepNoTest ==
    /\ pc = "d1"
    /\ IF todo1 = { }
       THEN pc' = "resolved" /\ UNCHANGED << searchVars >>
       ELSE \E d1_name \in todo1 :
              /\ todo1' = todo1 \ { d1_name }
              /\ IF ~IsDir(Join(start, d1_name)) \/ Join(start, d1_name) \in denied
                 THEN UNCHANGED << pc, p1, todo2, result, foundBy >>
                 ELSE /\ p1' = Join(start, d1_name)
                      /\ todo2' = ListDir(Join(start, d1_name))
                      /\ pc' = "d2"
                      /\ UNCHANGED << result, foundBy >>
    /\ UNCHANGED << revVars, treeVars, raised, rc, mainVars >>

\* the depth-1 loop without the inner except: an unreadable depth-1 directory
\* ends the search through the outer except (a mutation)
D1StepAbortOnDenied ==
    /\ pc = "d1"
    /\ IF todo1 = { }
       THEN pc' = "resolved" /\ UNCHANGED << searchVars >>
       ELSE \E d1_name \in todo1 :
              /\ todo1' = todo1 \ { d1_name }
              /\ IF ~IsDir(Join(start, d1_name))
                 THEN UNCHANGED << pc, p1, todo2, result, foundBy >>
                 ELSE IF IsDir(Join(Join(start, d1_name), BUILD_AXON_FOLDER))
                 THEN Found(Join(Join(start, d1_name), BUILD_AXON_FOLDER), "depth1")
                      /\ UNCHANGED << p1, todo2 >>
                 ELSE IF Join(start, d1_name) \in denied
                 THEN pc' = "resolved" /\ UNCHANGED << p1, todo2, result, foundBy >>
                 ELSE /\ p1' = Join(start, d1_name)
                      /\ todo2' = ListDir(Join(start, d1_name))
                      /\ pc' = "d2"
                      /\ UNCHANGED << result, foundBy >>
    /\ UNCHANGED << revVars, treeVars, raised, rc, mainVars >>

\* lines 63-70, 76-77: one iteration of the loop over os.listdir(abs_start_path),
\* in whatever order os.listdir gives the names
D1Step ==
    /\ pc = "d1"
    /\ IF todo1 = { }
       THEN \* the loop is over: return None
            pc' = "resolved" /\ UNCHANGED << searchVars >>
       ELSE \E d1_name \in todo1 :
              /\ todo1' = todo1 \ { d1_name }
              /\ IF ~IsDir(Join(start, d1_name))
                 THEN UNCHANGED << pc, p1, todo2, result, foundBy >>
                 ELSE IF IsDir(Join(Join(start, d1_name), BUILD_AXON_FOLDER))
                 THEN Found(Join(Join(start, d1_name), BUILD_AXON_FOLDER), "depth1")
                      /\ UNCHANGED << p1, todo2 >>
                 ELSE IF Join(start, d1_name) \in denied
                 THEN \* except PermissionError: continue
                      UNCHANGED << pc, p1, todo2, result, foundBy >>
                 ELSE /\ p1' = Join(start, d1_name)
                      /\ todo2' = ListDir(Join(start, d1_name))
                      /\ pc' = "d2"
                      /\ UNCHANGED << result, foundBy >>
    /\ UNCHANGED << revVars, treeVars, raised, rc, mainVars >>

\* lines 70-75: one iteration of the loop over os.listdir(p1)
D2Step ==
    /\ pc = "d2"
    /\ IF todo2 = { }
       THEN pc' = "d1" /\ UNCHANGED << searchVars >>
       ELSE \E d2_name \in todo2 :
              /\ todo2' = todo2 \ { d2_name }
              /\ IF /\ IsDir(Join(p1, d2_name))
                    /\ IsDir(Join(Join(p1, d2_name), BUILD_AXON_FOLDER))
                 THEN Found(Join(Join(p1, d2_name), BUILD_AXON_FOLDER), "depth2")
                      /\ UNCHANGED << todo1, p1 >>
                 ELSE UNCHANGED << pc, todo1, p1, result, foundBy >>
    /\ UNCHANGED << revVars, treeVars, raised, rc, mainVars >>

NextFind == SearchUp \/ SearchDown \/ D1Step \/ D2Step

SpecFind == InitFind /\ [][NextFind]_vars

\* ------------------------------------------------------------------ main

Exit(code) ==
    /\ rc' = code
    /\ pc' = "exit"

\* main with the dry-run test left out (a mutation)
LayoutNoDryRun ==
    /\ pc = "resolved"
    /\ IF result = None THEN Exit(RcNotFound) ELSE pc' = "enter" /\ UNCHANGED rc
    /\ UNCHANGED << revVars, treeVars, searchVars, argVars, cwd, buildVars, gateVars,
                    stageVars, raised, before >>

\* lines 146-157: find_build_axon has returned; not found, or the dry-run report
Layout ==
    /\ pc = "resolved"
    /\ IF result = None
       THEN Exit(RcNotFound)
       ELSE IF dry_run
       THEN Exit(RcSuccess)
       ELSE pc' = "enter" /\ UNCHANGED rc
    /\ UNCHANGED << revVars, treeVars, searchVars, argVars, cwd, buildVars, gateVars,
                    stageVars, raised, before >>

\* main going on to the build tool when os.chdir failed (a mutation)
EnterBuildDirUnchecked ==
    /\ pc = "enter"
    /\ \E isdir \in BOOLEAN, entered \in BOOLEAN :
         /\ ~isdir => entered
         /\ mcuDir' = IF isdir THEN "dir" ELSE "absent"
         /\ IF ~isdir
            THEN Exit(RcNoMcuDir) /\ UNCHANGED << cwd, chdirState >>
            ELSE /\ cwd' = IF entered THEN result \o MCU_BUILD_SUFFIX ELSE cwd
                 /\ chdirState' = IF entered THEN "ok" ELSE "failed"
                 /\ pc' = "build"
                 /\ UNCHANGED rc
    /\ UNCHANGED << revVars, treeVars, searchVars, argVars, makeCalls, makeFound, make_rc,
                    gateVars, stageVars, raised, before >>

\* lines 159-168: the MCU build directory is tested and entered
EnterBuildDir ==
    /\ pc = "enter"
    /\ \E isdir \in BOOLEAN, entered \in BOOLEAN :
         /\ ~isdir => entered
         /\ mcuDir' = IF isdir THEN "dir" ELSE "absent"
         /\ IF ~isdir
            THEN Exit(RcNoMcuDir) /\ UNCHANGED << cwd, chdirState >>
            ELSE IF ~entered
            THEN \* except OSError
                 Exit(RcChdirFailed) /\ chdirState' = "failed" /\ UNCHANGED cwd
            ELSE /\ cwd' = result \o MCU_BUILD_SUFFIX
                 /\ chdirState' = "ok"
                 /\ pc' = "build"
                 /\ UNCHANGED rc
    /\ UNCHANGED << revVars, treeVars, searchVars, argVars, makeCalls, makeFound, make_rc,
                    gateVars, stageVars, raised, before >>

\* run_make, lines 83-91: the tool's status, 127 when it is not on the PATH
RunMake(found, status) == IF found THEN status ELSE RcMakeMissing

\* main going on to the artifact whatever the build tool returned (a mutation)
BuildIgnoringStatus ==
    /\ pc = "build"
    /\ \E found \in BOOLEAN, status \in 0..MaxMakeRc :
         /\ ~found => status = 0
         /\ makeCalls' = makeCalls + 1
         /\ makeFound' = found
         /\ make_rc' = RunMake(found, status)
         /\ pc' = "gate"
    /\ UNCHANGED << revVars, treeVars, searchVars, argVars, cwd, mcuDir, chdirState,
                    gateVars, stageVars, raised, rc, before >>

\* the build tool run again after a failure (a mutation)
BuildWithRetry ==
    /\ pc = "build"
    /\ \E found \in BOOLEAN, status \in 0..MaxMakeRc :
         /\ ~found => status = 0
         /\ makeCalls' = makeCalls + 1
         /\ makeFound' = found
         /\ make_rc' = RunMake(found, status)
         /\ IF RunMake(found, status) = 0
            THEN pc' = "gate" /\ UNCHANGED rc
            ELSE IF makeCalls = 0
            THEN UNCHANGED << pc, rc >>
            ELSE Exit(RunMake(found, status))
    /\ UNCHANGED << revVars, treeVars, searchVars, argVars, cwd, mcuDir, chdirState,
                    gateVars, stageVars, raised, before >>

\* lines 170-172: the build tool runs; a non-zero status is returned as it is
Build ==
    /\ pc = "build"
    /\ \E found \in BOOLEAN, status \in 0..MaxMakeRc :
         /\ ~found => status = 0
         /\ makeCalls' = makeCalls + 1
         /\ makeFound' = found
         /\ make_rc' = RunMake(found, status)
         /\ IF RunMake(found, status) # 0
            THEN Exit(RunMake(found, status))
            ELSE pc' = "gate" /\ UNCHANGED rc
    /\ UNCHANGED << revVars, treeVars, searchVars, argVars, cwd, mcuDir, chdirState,
                    gateVars, stageVars, raised, before >>

\* find_boot_dir taking the last candidate that exists (a mutation)
FindBootDirLast(b) ==
    IF b[2] # "absent" THEN 2 ELSE IF b[1] # "absent" THEN 1 ELSE 0

\* find_boot_dir, lines 93-99: the first candidate that is a directory, 0 for None
FindBootDir(b) ==
    IF b[1] # "absent" THEN 1 ELSE IF b[2] # "absent" THEN 2 ELSE 0

\* the freshness test with >= for > (a mutation)
StaleAtOrAbove(age, limit) == age >= limit

\* line 121: age > timeout
Stale(age, limit) == age > limit

\* the artifact in candidate directory i has its own content
RomContent(i) == IF i = 1 THEN "rom-1" ELSE "rom-2"

BootStates == [ 1..Len(BootCandidates) -> { "absent", "empty", "rom" } ]

\* the gate with --force-copy skipping the test of the artifact as well
\* (a mutation)
GateForceSkipsArtifact ==
    /\ pc = "gate"
    /\ \E b \in BootStates, age \in Ages, gone \in BOOLEAN :
         LET boot_dir == FindBootDir(b)
             hasRom == boot_dir # 0 /\ b[boot_dir] = "rom"
         IN  /\ ~hasRom => age = 0
             /\ (~hasRom \/ force_copy) => ~gone
             /\ boot' = b
             /\ romAge' = age
             /\ vanished' = gone
             /\ gateRan' = TRUE
             /\ rom_path' = boot_dir
             /\ IF boot_dir = 0
                THEN Exit(RcNoBootDir) /\ UNCHANGED raised
                ELSE IF force_copy
                THEN pc' = "stage" /\ UNCHANGED << rc, raised >>
                ELSE IF b[boot_dir] # "rom"
                THEN Exit(RcNoRom) /\ UNCHANGED raised
                ELSE IF gone
                THEN Crash("FileNotFoundError")
                ELSE IF Stale(age, timeout)
                THEN Exit(RcStale) /\ UNCHANGED raised
                ELSE pc' = "stage" /\ UNCHANGED << rc, raised >>
    /\ UNCHANGED << revVars, treeVars, searchVars, argVars, cwd, buildVars, stageVars,
                    before >>

\* check_and_copy_rom, lines 106-123: boot directory, artifact, freshness.
\* What the boot-firmware directories hold when the build tool has returned,
\* and the artifact's age, are drawn here.
Gate ==
    /\ pc = "gate"
    /\ \E b \in BootStates, age \in Ages, gone \in BOOLEAN :
         LET boot_dir == FindBootDir(b)
             hasRom == boot_dir # 0 /\ b[boot_dir] = "rom"
         IN  /\ ~hasRom => age = 0
             /\ (~hasRom \/ force_copy) => ~gone
             /\ boot' = b
             /\ romAge' = age
             /\ vanished' = gone
             /\ gateRan' = TRUE
             /\ rom_path' = boot_dir
             /\ IF boot_dir = 0
                THEN Exit(RcNoBootDir) /\ UNCHANGED raised
                ELSE IF b[boot_dir] # "rom"
                THEN Exit(RcNoRom) /\ UNCHANGED raised
                ELSE IF ~force_copy /\ gone
                THEN \* os.path.getmtime raises, and nothing catches it
                     Crash("FileNotFoundError")
                ELSE IF ~force_copy /\ Stale(age, timeout)
                THEN Exit(RcStale) /\ UNCHANGED raised
                ELSE pc' = "stage" /\ UNCHANGED << rc, raised >>
    /\ UNCHANGED << revVars, treeVars, searchVars, argVars, cwd, buildVars, stageVars,
                    before >>

\* os.makedirs(dest_dir, exist_ok=True): the directory's state afterwards, or
\* the exception raised; the parent of dest_dir exists
MakeDirs(d, permitted) ==
    IF d = "dir" THEN "dir"
    ELSE IF d = "file" THEN "FileExistsError"
    ELSE IF permitted THEN "dir" ELSE "PermissionError"

\* staging that removes the destination file when the copy fails (a mutation)
StageRemovingOnFailure ==
    /\ pc = "stage"
    /\ \E permitted \in BOOLEAN, copied \in { "ok", "failed", "torn" } :
         LET made == MakeDirs(destDir, permitted)
         IN  /\ destDir # "absent" => permitted
             /\ (made # "dir" \/ dry_run) => copied = "ok"
             /\ mkdirCalls' = mkdirCalls + 1
             /\ IF made # "dir"
                THEN Crash(made) /\ UNCHANGED << destDir, destFile, copyState >>
                ELSE /\ destDir' = "dir"
                     /\ IF dry_run
                        THEN Exit(RcSuccess)
                             /\ UNCHANGED << destFile, copyState, raised >>
                        ELSE IF copied = "ok"
                        THEN /\ destFile' = RomContent(rom_path)
                             /\ copyState' = "ok"
                             /\ Exit(RcSuccess)
                             /\ UNCHANGED raised
                        ELSE /\ destFile' = "none"
                             /\ copyState' = "failed"
                             /\ Exit(RcCopyFailed)
                             /\ UNCHANGED raised
    /\ UNCHANGED << revVars, treeVars, searchVars, argVars, cwd, buildVars, gateVars,
                    before >>

\* check_and_copy_rom, lines 125-140: the destination directory, then the copy
Stage ==
    /\ pc = "stage"
    /\ \E permitted \in BOOLEAN, copied \in { "ok", "failed", "torn" } :
         LET made == MakeDirs(destDir, permitted)
         IN  /\ destDir # "absent" => permitted
             /\ (made # "dir" \/ dry_run) => copied = "ok"
             /\ mkdirCalls' = mkdirCalls + 1
             /\ IF made # "dir"
                THEN \* os.makedirs raises, and nothing catches it
                     Crash(made) /\ UNCHANGED << destDir, destFile, copyState >>
                ELSE /\ destDir' = "dir"
                     /\ IF dry_run
                        THEN Exit(RcSuccess)
                             /\ UNCHANGED << destFile, copyState, raised >>
                        ELSE IF copied = "ok"
                        THEN /\ destFile' = RomContent(rom_path)
                             /\ copyState' = "ok"
                             /\ Exit(RcSuccess)
                             /\ UNCHANGED raised
                        ELSE \* except Exception
                             /\ destFile' = IF copied = "torn" THEN "partial"
                                                               ELSE destFile
                             /\ copyState' = "failed"
                             /\ Exit(RcCopyFailed)
                             /\ UNCHANGED raised
    /\ UNCHANGED << revVars, treeVars, searchVars, argVars, cwd, buildVars, gateVars,
                    before >>

Next == NextFind \/ Layout \/ EnterBuildDir \/ Build \/ Gate \/ Stage

Spec == Init /\ [][Next]_vars

\* check_and_copy_rom called on its own, dry_run being any of its values: the
\* build root is /build-axon, the working directory is the MCU build directory
InitRom ==
    /\ start = << >>
    /\ dirs = { << >>, << BUILD_AXON_FOLDER >> }
    /\ files = { } /\ denied = { }
    /\ dry_run \in BOOLEAN /\ force_copy \in BOOLEAN /\ timeout \in Timeouts
    /\ \E d \in Dests : destDir = d[1] /\ destFile = d[2]
    /\ pc = "gate"
    /\ todo1 = { } /\ p1 = << >> /\ todo2 = { }
    /\ result = << BUILD_AXON_FOLDER >> /\ foundBy = "up"
    /\ cwd = << BUILD_AXON_FOLDER >> \o MCU_BUILD_SUFFIX
    /\ mcuDir = "dir" /\ chdirState = "ok"
    /\ makeCalls = 0 /\ makeFound = TRUE /\ make_rc = 0
    /\ boot = [ i \in 1..Len(BootCandidates) |-> "unread" ]
    /\ romAge = 0 /\ vanished = FALSE /\ gateRan = FALSE /\ rom_path = 0
    /\ mkdirCalls = 0 /\ copyState = "none"
    /\ raised = "none" /\ rc = 0
    /\ before = [ dirs |-> dirs, files |-> files, cwd |-> cwd,
                  destDir |-> destDir, destFile |-> destFile ]
    /\ RevIdle

NextRom == Gate \/ Stage

SpecRom == InitRom /\ [][NextRom]_vars

\* --------------------------------------- update_telechips_cgw_rev.py: main

\* the variables of mcu_build_and_copy.py
buildScriptVars == << treeVars, pc, searchVars, raised, rc, mainVars >>

\* mcu_build_and_copy.py is not running
MainIdle ==
    /\ start = << >> /\ dirs = { << >> } /\ files = { } /\ denied = { }
    /\ dry_run = FALSE /\ force_copy = FALSE /\ timeout = DefaultTimeout
    /\ destDir = "absent" /\ destFile = "none"
    /\ pc = "idle"
    /\ todo1 = { } /\ p1 = << >> /\ todo2 = { }
    /\ result = None /\ foundBy = "none"
    /\ cwd = << >>
    /\ mcuDir = "unread" /\ chdirState = "none"
    /\ makeCalls = 0 /\ makeFound = TRUE /\ make_rc = 0
    /\ boot = [ i \in 1..Len(BootCandidates) |-> "unread" ]
    /\ romAge = 0 /\ vanished = FALSE /\ gateRan = FALSE /\ rom_path = 0
    /\ mkdirCalls = 0 /\ copyState = "none"
    /\ raised = "none" /\ rc = 0
    /\ before = [ dirs |-> dirs, files |-> files, cwd |-> cwd,
                  destDir |-> destDir, destFile |-> destFile ]

\* a run of the utility: its arguments, and the files it finds
InitRev ==
    /\ MainIdle
    /\ rpc = "args"
    /\ argc \in { ArgCount - 1, ArgCount }
    /\ RECIPE_PN \in Recipes
    /\ srcTree \in { "dir", "absent" }
    /\ incFile \in { NoFile } \cup { File(c) : c \in Contents }
    /\ backupFile = NoFile
    /\ COMMIT_ID = "none" /\ TARGET_VAR = NoVar
    /\ content = << >> /\ new_lines = << >> /\ updated = FALSE
    /\ written = "none" /\ revRaised = "none" /\ revRc = 0

RevExit(code) ==
    /\ revRc' = code
    /\ rpc' = "exit"

\* lines 22-37: the number of arguments, the source tree
RevArgs ==
    /\ rpc = "args"
    /\ IF argc # ArgCount \/ srcTree # "dir"
       THEN RevExit(RevError)
       ELSE rpc' = "git" /\ UNCHANGED revRc
    /\ UNCHANGED << argc, RECIPE_PN, srcTree, incFile, backupFile, COMMIT_ID,
                    TARGET_VAR, content, new_lines, updated, written, revRaised,
                    buildScriptVars >>

\* lines 39-53: git rev-parse HEAD; only CalledProcessError is caught
RevGit ==
    /\ rpc = "git"
    /\ \E outcome \in { "ok", "failed", "no git" } :
         CASE outcome = "ok" ->
                /\ COMMIT_ID' = HeadCommit
                /\ rpc' = "inc"
                /\ UNCHANGED << revRc, revRaised >>
           [] outcome = "failed" ->
                RevExit(RevError) /\ UNCHANGED << COMMIT_ID, revRaised >>
           [] outcome = "no git" ->
                /\ revRaised' = "FileNotFoundError"
                /\ rpc' = "crash"
                /\ UNCHANGED << COMMIT_ID, revRc >>
    /\ UNCHANGED << argc, RECIPE_PN, srcTree, incFile, backupFile, TARGET_VAR,
                    content, new_lines, updated, written, buildScriptVars >>

\* lines 55-90: the recipe file is a file, the recipe has a variable, the
\* file is read
RevRead ==
    /\ rpc = "inc"
    /\ \E readable \in BOOLEAN :
         /\ (~incFile.isfile \/ RECIPE_VAR_MAP(RECIPE_PN) = NoVar) => readable
         /\ IF ~incFile.isfile
            THEN RevExit(RevError) /\ UNCHANGED << TARGET_VAR, content >>
            ELSE /\ TARGET_VAR' = RECIPE_VAR_MAP(RECIPE_PN)
                 /\ IF RECIPE_VAR_MAP(RECIPE_PN) = NoVar
                    THEN RevExit(0) /\ UNCHANGED content
                    ELSE IF ~readable
                    THEN RevExit(RevError) /\ UNCHANGED content
                    ELSE /\ content' = incFile.lines
                         /\ rpc' = "scan"
                         /\ UNCHANGED revRc
    /\ UNCHANGED << argc, RECIPE_PN, srcTree, incFile, backupFile, COMMIT_ID,
                    new_lines, updated, written, revRaised, buildScriptVars >>

\* lines 98-123, 142-152: the loop over the lines; with no match main ends
RevScan ==
    /\ rpc = "scan"
    /\ new_lines' = Stamp(content, TARGET_VAR, COMMIT_ID)
    /\ updated' = Updated(content, TARGET_VAR)
    /\ IF Updated(content, TARGET_VAR)
       THEN rpc' = "backup" /\ UNCHANGED revRc
       ELSE RevExit(0)
    /\ UNCHANGED << argc, RECIPE_PN, srcTree, incFile, backupFile, COMMIT_ID,
                    TARGET_VAR, content, written, revRaised, buildScriptVars >>

\* lines 125-132: the backup; a failure is printed and the run goes on
RevBackup ==
    /\ rpc = "backup"
    /\ \E outcome \in { "ok", "failed", "torn" } :
         backupFile' = CASE outcome = "ok" -> File(content)
                         [] outcome = "failed" -> backupFile
                         [] outcome = "torn" -> File(<< >>)
    /\ rpc' = "write"
    /\ UNCHANGED << argc, RECIPE_PN, srcTree, incFile, COMMIT_ID, TARGET_VAR,
                    content, new_lines, updated, written, revRaised, revRc,
                    buildScriptVars >>

\* lines 135-141: the recipe file is overwritten
RevWrite ==
    /\ rpc = "write"
    /\ \E outcome \in { "ok", "failed", "torn" } :
         CASE outcome = "ok" ->
                /\ incFile' = File(new_lines)
                /\ written' = "ok"
                /\ RevExit(0)
           [] outcome = "failed" ->
                /\ written' = "failed"
                /\ RevExit(RevError)
                /\ UNCHANGED incFile
           [] outcome = "torn" ->
                /\ incFile' = File(<< >>)
                /\ written' = "failed"
                /\ RevExit(RevError)
    /\ UNCHANGED << argc, RECIPE_PN, srcTree, backupFile, COMMIT_ID, TARGET_VAR,
                    content, new_lines, updated, revRaised, buildScriptVars >>

NextRev == RevArgs \/ RevGit \/ RevRead \/ RevScan \/ RevBackup \/ RevWrite

SpecRev == InitRev /\ [][NextRev]_vars

\* ---------------------------------------------------------------- claims

Searching == pc \in { "up", "down", "d1", "d2" }

Ended == pc \in { "exit", "crash" }

\* the build-axon directories directly under a prefix of the start path
UpMatches ==
    { d \in dirs \ { << >> } : /\ d[Len(d)] = BUILD_AXON_FOLDER
                               /\ SubSeq(d, 1, Len(d) - 1) \in Prefixes(start) }

\* the build-axon directories below the start path
DownMatches ==
    { d \in dirs \ { << >> } : /\ Len(d) >= Len(start) + 2
                               /\ d[Len(d)] = BUILD_AXON_FOLDER
                               /\ SubSeq(d, 1, Len(start)) = start }

\* those at depth 1 or 2: start/d1/build-axon, start/d1/d2/build-axon
ShallowMatches == { d \in DownMatches : Len(d) <= Len(start) + 3 }

\* the run has not changed the working directory, started the build tool, or
\* touched the filesystem
NoSideEffects ==
    /\ cwd = before.cwd /\ chdirState = "none"
    /\ makeCalls = 0
    /\ mkdirCalls = 0 /\ copyState = "none"
    /\ destDir = before.destDir /\ destFile = before.destFile
    /\ dirs = before.dirs /\ files = before.files

DestUntouched ==
    /\ mkdirCalls = 0 /\ copyState = "none"
    /\ destDir = before.destDir /\ destFile = before.destFile

\* the gate found a boot-firmware directory that holds the artifact
ArtifactSeen == gateRan /\ rom_path # 0 /\ boot[rom_path] = "rom"

\* C1: when some prefix of the start path holds a build-axon directory, the
\* search returns the one under the deepest such prefix, found by the upward
\* phase; the downward phase is never entered.
C1_NearestAncestor ==
    (UpMatches # { } /\ pc # "up") =>
        /\ pc = "resolved"
        /\ foundBy = "up"
        /\ result \in UpMatches
        /\ \A d \in UpMatches : Len(d) <= Len(result)

C1_Witness ==
    /\ pc = "resolved"
    /\ Cardinality(UpMatches) >= 2
    /\ foundBy = "up"
    /\ result \in UpMatches
    /\ \A d \in UpMatches : Len(d) <= Len(result)

\* C2: when no prefix of the start path holds build-axon and every directory
\* can be listed, a build-axon directory at depth 1 or 2 below the start path
\* is returned if there is one; if there are only deeper ones, None is returned.
C2_DepthTwoLimit ==
    (UpMatches = { } /\ denied = { } /\ DownMatches # { } /\ ~Searching) =>
        /\ pc = "resolved"
        /\ ShallowMatches # { } => result \in ShallowMatches
        /\ ShallowMatches = { } => result = None

C2_Witness ==
    /\ pc = "resolved"
    /\ UpMatches = { } /\ denied = { }
    /\ ShallowMatches = { } /\ DownMatches # { }
    /\ todo1 = { }
    /\ result = None

\* C3: a dry run whose build root is resolved returns 0, and neither changes
\* the working directory, nor starts the build tool, nor touches the
\* filesystem; the MCU build directory is not even looked at.
C3_DryRunIsInert ==
    (dry_run /\ result # None) =>
        /\ pc \in { "resolved", "exit" }
        /\ pc = "exit" => rc = RcSuccess
        /\ mcuDir = "unread" /\ ~gateRan
        /\ NoSideEffects

C3_Witness ==
    /\ dry_run /\ result # None
    /\ pc = "exit" /\ rc = RcSuccess
    /\ destDir = "absent"

\* C4: at the gate, an artifact timeout + 1 seconds old ends the run with 9 and
\* no copy unless --force-copy is given; with --force-copy, and no failure of
\* the copy, it is copied and the run ends with 0.
C4_StaleGate ==
    (Ended /\ ArtifactSeen /\ ~vanished /\ romAge = timeout + 1) =>
        IF ~force_copy
        THEN pc = "exit" /\ rc = RcStale /\ DestUntouched
        ELSE copyState # "failed" =>
                /\ pc = "exit" /\ rc = RcSuccess
                /\ destFile = RomContent(rom_path)

\* the failure classes of the exit codes 4 .. 10
FailureClass(code) ==
    CASE code = RcNotFound -> result = None
      [] code = RcNoMcuDir -> mcuDir = "absent"
      [] code = RcChdirFailed -> chdirState = "failed"
      [] code = RcNoBootDir -> gateRan /\ rom_path = 0
      [] code = RcNoRom -> gateRan /\ rom_path # 0 /\ boot[rom_path] # "rom"
      [] code = RcStale -> ArtifactSeen /\ ~force_copy /\ romAge > timeout
      [] code = RcCopyFailed -> copyState = "failed"
      [] OTHER -> TRUE

\* C5, as stated: main returns a code of 4 .. 10 only when the failure class
\* of that code occurred, whatever the build tool's status.
C5_OwnClassOnly == pc = "exit" => FailureClass(rc)

\* C5, amended: main returns a code of 4 .. 10 only when the failure class of
\* that code occurred, or when the build tool itself ended with that status.
C5_OwnClassOrPropagated ==
    pc = "exit" => (FailureClass(rc) \/ (makeCalls = 1 /\ make_rc = rc /\ ~gateRan))

C5_Witness ==
    /\ pc = "exit" /\ rc = RcStale
    /\ makeCalls = 1 /\ make_rc = 0
    /\ ArtifactSeen /\ romAge = timeout + 1

\* C6: no exception escapes main: every run that ends ends with a return value.
C6_NoEscape == pc # "crash" /\ raised = "none"

\* C7: a non-zero status of the build tool (127 when the tool is not on the
\* PATH) is what main returns, with no gate check, no destination directory
\* and no copy.
C7_BuildFailureEndsRun ==
    (makeCalls > 0 /\ (make_rc # 0 \/ ~makeFound)) =>
        /\ pc = "exit" /\ rc = make_rc
        /\ ~makeFound => make_rc = RcMakeMissing
        /\ ~gateRan /\ boot = [ i \in 1..Len(BootCandidates) |-> "unread" ]
        /\ DestUntouched

C7_Witness ==
    /\ makeCalls = 1 /\ ~makeFound
    /\ pc = "exit" /\ rc = RcMakeMissing
    /\ chdirState = "ok"

\* C8: with both boot-firmware directories present the first one is the
\* source: an artifact only in the second gives 8, and what is copied is the
\* first one's artifact.
C8_FirstVariantWins ==
    (gateRan /\ boot[1] # "absent" /\ boot[2] # "absent") =>
        /\ rom_path = 1
        /\ (boot[1] = "empty" /\ boot[2] = "rom") =>
              pc = "exit" /\ rc = RcNoRom /\ DestUntouched
        /\ copyState = "ok" => destFile = RomContent(1)

C8_Witness ==
    /\ gateRan /\ boot[1] = "empty" /\ boot[2] = "rom"
    /\ pc = "exit" /\ rc = RcNoRom

\* C9: a run that is no dry run, finds the build root, enters the MCU build
\* directory, gets 0 from the build tool and finds an artifact no older than
\* the timeout ends, unless the copy fails, with 0 and the artifact's content
\* in the destination file.
C9_EndToEnd ==
    ( /\ Ended /\ ~dry_run /\ result # None
      /\ mcuDir = "dir" /\ chdirState = "ok"
      /\ makeCalls = 1 /\ make_rc = 0
      /\ ArtifactSeen /\ ~vanished /\ romAge <= timeout
      /\ copyState # "failed" ) =>
        /\ pc = "exit" /\ rc = RcSuccess
        /\ destDir = "dir" /\ destFile = RomContent(rom_path)

\* C10: a run in which neither phase of the search finds a build root ends
\* with 4 and without side effects, with and without --dry-run.
C10_NotFoundIsFour ==
    (Ended /\ result = None) =>
        /\ pc = "exit" /\ rc = RcNotFound
        /\ NoSideEffects

\* the states of the orchestrator
Phase(at) ==
    CASE at \in { "up", "down", "d1", "d2" } -> "Resolving"
      [] at = "resolved" -> "ComputingLayout"
      [] at = "enter" -> "EnteringBuildDir"
      [] at = "build" -> "Building"
      [] at = "gate" -> "Gating"
      [] at = "stage" -> "Staging"
      [] OTHER -> "Ended"

\* the order of the states; only the search takes more than one step
PhaseOrder ==
    { << "Resolving", "Resolving" >>, << "Resolving", "ComputingLayout" >>,
      << "ComputingLayout", "EnteringBuildDir" >>,
      << "EnteringBuildDir", "Building" >>, << "Building", "Gating" >>,
      << "Gating", "Staging" >> }
    \cup { << p, "Ended" >> : p \in { "Resolving", "ComputingLayout",
                                      "EnteringBuildDir", "Building",
                                      "Gating", "Staging" } }

\* a step of a run, as the state machine of the orchestrator allows it
OrderedStep ==
    \* nothing follows the outcome
    /\ ~Ended
    /\ << Phase(pc), Phase(pc') >> \in PhaseOrder
    \* the search is not started again
    /\ pc' # "up"
    /\ (foundBy # "none" \/ pc = "resolved") => UNCHANGED << result, foundBy >>
    \* a step is entered only when the one before it has succeeded
    /\ pc' = "enter" => (result # None /\ ~dry_run)
    /\ pc' = "build" => (mcuDir' = "dir" /\ chdirState' = "ok")
    /\ pc' = "gate" => (makeCalls' = 1 /\ makeFound' /\ make_rc' = 0)
    /\ pc' = "stage" => /\ gateRan' /\ rom_path' # 0 /\ boot'[rom_path'] = "rom"
                        /\ force_copy \/ romAge' <= timeout
    \* the dry-run report ends the run with 0
    /\ (pc = "resolved" /\ dry_run /\ result # None) => (pc' = "exit" /\ rc' = RcSuccess)
    \* each step is attempted in its own state only, and once
    /\ chdirState' # chdirState => (pc = "enter" /\ chdirState = "none")
    /\ makeCalls' # makeCalls => (pc = "build" /\ makeCalls = 0 /\ makeCalls' = 1)
    /\ gateRan' # gateRan => (pc = "gate" /\ ~gateRan)
    /\ mkdirCalls' # mkdirCalls => (pc = "stage" /\ mkdirCalls = 0 /\ mkdirCalls' = 1)
    /\ copyState' # copyState => (pc = "stage" /\ copyState = "none")
    \* one outcome: a return value, or an exception that escapes
    /\ rc' # rc => pc' = "exit"
    /\ raised' # raised => (pc' = "crash" /\ raised = "none")

\* C11: every run goes through Resolving, ComputingLayout, then the dry-run
\* report or EnteringBuildDir, Building, Gating, Staging, in this order; a
\* step is entered only after the one before it succeeded; the search, the
\* directory change, the build tool, the gate and the copy are each attempted
\* at most once; a run that has no outcome yet has a next step, and no step
\* follows the outcome.
C11_OrderedOnce == [][OrderedStep]_vars /\ [](Ended \/ ENABLED Next)

C11_Witness ==
    /\ pc = "exit" /\ rc = RcSuccess /\ ~dry_run
    /\ foundBy # "none" /\ chdirState = "ok"
    /\ makeCalls = 1 /\ gateRan /\ mkdirCalls = 1 /\ copyState = "ok"

\* the build tool was not started, and check_and_copy_rom was not called
NoBuildNoGate ==
    /\ makeCalls = 0
    /\ ~gateRan /\ boot = [ i \in 1..Len(BootCandidates) |-> "unread" ]
    /\ DestUntouched

\* C12: the build tool is started only in the MCU build directory, after
\* os.chdir to it succeeded; a missing MCU build directory ends the run with
\* 5 and a failed os.chdir with 6, in both cases without the build tool, the
\* gate or the copy.
C12_BuildOnlyInBuildDir ==
    /\ [][makeCalls' # makeCalls =>
            /\ mcuDir = "dir" /\ chdirState = "ok"
            /\ cwd = result \o MCU_BUILD_SUFFIX]_vars
    /\ [](mcuDir = "absent" =>
            /\ pc = "exit" /\ rc = RcNoMcuDir
            /\ chdirState = "none" /\ cwd = before.cwd
            /\ NoBuildNoGate)
    /\ [](chdirState = "failed" =>
            /\ pc = "exit" /\ rc = RcChdirFailed
            /\ cwd = before.cwd
            /\ NoBuildNoGate)

C12_Witness ==
    /\ pc = "exit" /\ rc = RcChdirFailed
    /\ mcuDir = "dir" /\ chdirState = "failed"
    /\ makeCalls = 0

\* the gate checks of check_and_copy_rom passed
GatePassed ==
    /\ ArtifactSeen
    /\ force_copy \/ (~vanished /\ ~Stale(romAge, timeout))

\* C13: when check_and_copy_rom, called with dry_run = True, returns after
\* the gate checks passed, it returns 0 and has neither created the
\* destination directory nor written the destination file.
C13_DryRunStagesNothing ==
    (dry_run /\ GatePassed /\ pc = "exit") =>
        /\ rc = RcSuccess
        /\ destDir = before.destDir
        /\ destFile = before.destFile

\* start/x/build-axon
Depth1Matches == { d \in DownMatches : Len(d) = Len(start) + 2 }

\* start/y/z/build-axon
Depth2Matches == { d \in DownMatches : Len(d) = Len(start) + 3 }

\* C14: when no prefix of the start path holds build-axon, every directory
\* can be listed, and build-axon exists both at depth 1 and at depth 2 below
\* the start path, the search returns a depth-1 match, in whatever order
\* os.listdir gives the names.
C14_DepthOneFirst ==
    ( /\ UpMatches = { } /\ denied = { }
      /\ Depth1Matches # { } /\ Depth2Matches # { }
      /\ ~Searching ) =>
        /\ pc = "resolved"
        /\ result \in Depth1Matches

\* the depth-1 and depth-2 matches that do not lie below an unreadable
\* directory other than directly in it
VisibleMatches ==
    { d \in ShallowMatches :
        ~(Len(d) = Len(start) + 3 /\ SubSeq(d, 1, Len(start) + 1) \in denied) }

\* C15: an unreadable depth-1 directory is skipped: the search goes on with
\* the other depth-1 directories and their children and returns a match
\* found there, None when there is none; when the start path itself is
\* unreadable the search returns None, and no exception escapes.
C15_DeniedIsSkipped ==
    (UpMatches = { } /\ denied # { } /\ ~Searching) =>
        /\ pc = "resolved" /\ raised = "none"
        /\ IF start \in denied
           THEN result = None
           ELSE /\ VisibleMatches # { } => result \in VisibleMatches
                /\ VisibleMatches = { } => result = None

C15_Witness ==
    /\ pc = "resolved" /\ UpMatches = { }
    /\ \E d \in denied :
         /\ Len(d) = Len(start) + 1
         /\ d[Len(d)] \notin todo1
         /\ result \in VisibleMatches
         /\ SubSeq(result, 1, Len(start) + 1) # d

\* the gate measured the artifact's age
AgeMeasured == ArtifactSeen /\ ~force_copy /\ ~vanished

\* the gate let the artifact through
Accepted == pc = "stage" \/ mkdirCalls = 1

\* C16: without --force-copy an artifact that is copied was no older than the
\* timeout at the gate; an age equal to the timeout is accepted; the gate
\* ends the run with 9 only for an age greater than the timeout.
C16_FreshnessInvariant ==
    /\ (~force_copy /\ copyState = "ok") => (AgeMeasured /\ romAge <= timeout)
    /\ (AgeMeasured /\ romAge = timeout) => Accepted
    /\ (AgeMeasured /\ romAge > timeout) => (pc = "exit" /\ rc = RcStale /\ ~Accepted)
    /\ (gateRan /\ pc = "exit" /\ rc = RcStale) => (AgeMeasured /\ romAge > timeout)

C16_Witness ==
    /\ ~force_copy /\ timeout = DefaultTimeout
    /\ AgeMeasured /\ romAge = timeout
    /\ pc = "exit" /\ rc = RcSuccess /\ copyState = "ok"

\* C17: whatever --force-copy and --timeout are, the gate ends the run with 7
\* when no boot-firmware directory exists and with 8 when the first one that
\* exists does not hold the artifact; it ends the run with 9 only when
\* directory and artifact exist and --force-copy is not given; with
\* --force-copy an artifact that exists goes on to staging whatever its age.
C17_ForceSkipsFreshnessOnly ==
    gateRan =>
        /\ (boot[1] = "absent" /\ boot[2] = "absent") =>
              pc = "exit" /\ rc = RcNoBootDir /\ DestUntouched
        /\ (FindBootDir(boot) # 0 /\ boot[FindBootDir(boot)] # "rom") =>
              pc = "exit" /\ rc = RcNoRom /\ DestUntouched
        /\ (pc = "exit" /\ rc = RcStale) =>
              /\ FindBootDir(boot) # 0 /\ boot[FindBootDir(boot)] = "rom"
              /\ ~force_copy
        /\ (force_copy /\ FindBootDir(boot) # 0 /\ boot[FindBootDir(boot)] = "rom") =>
              Accepted

C17_Witness ==
    /\ force_copy /\ timeout = 0
    /\ gateRan /\ boot[1] = "absent" /\ boot[2] = "empty"
    /\ pc = "exit" /\ rc = RcNoRom

\* what a step of a run may do to the filesystem
FrameStep ==
    \* the tree the search reads is left alone
    /\ dirs' = dirs /\ files' = files /\ denied' = denied
    \* the destination directory is only created, by os.makedirs
    /\ destDir' # destDir => (pc = "stage" /\ destDir = "absent" /\ destDir' = "dir")
    \* the destination file is only written, by shutil.copy2, in that directory
    /\ destFile' # destFile =>
          /\ pc = "stage" /\ destDir' = "dir"
          /\ destFile' \in { RomContent(rom_path), "partial" }

\* the codes 4 .. 9
GateCodes == { RcNotFound, RcNoMcuDir, RcChdirFailed, RcNoBootDir, RcNoRom, RcStale }

\* C18: a run creates nothing but the destination directory and writes nothing
\* but the destination file in it, and deletes nothing; a run that ends with
\* 4, 5, 6, 7, 8 or 9, or with the non-zero status of the build tool, leaves
\* the destination directory and file as they were before the run.
C18_FilesystemFrame ==
    /\ [][FrameStep]_vars
    /\ []((pc = "exit" /\ (rc \in GateCodes \/ (makeCalls = 1 /\ make_rc # 0))) =>
            /\ DestUntouched
            /\ dirs = before.dirs /\ files = before.files)

C18_Witness ==
    /\ pc = "exit" /\ rc = RcStale /\ gateRan
    /\ before.destDir = "dir" /\ before.destFile = "rom-old"
    /\ destDir = "dir" /\ destFile = "rom-old"

\* C19: when the recipe file is overwritten with the commit identifier in
\* place of ${AUTOREV}, the backup file already holds the content the recipe
\* file had, and some line of that content matched the assignment of
\* ${AUTOREV} to the recipe's variable.
C19_BackupBeforeOverwrite ==
    [][(written # "ok" /\ written' = "ok") =>
          /\ backupFile = File(content)
          /\ incFile = File(content)
          /\ Updated(content, TARGET_VAR)]_vars

\* C20: a run without --dry-run returns 0 only when the build root was found,
\* the MCU build directory existed and was entered, the build tool ran once
\* and returned 0, a boot-firmware directory held the artifact, the artifact
\* was no older than the timeout or --force-copy was given, and the copy to
\* the destination was made.
C20_SuccessOnlyByFullRun ==
    (pc = "exit" /\ rc = RcSuccess /\ ~dry_run) =>
        /\ result # None
        /\ mcuDir = "dir" /\ chdirState = "ok"
        /\ cwd = result \o MCU_BUILD_SUFFIX
        /\ makeCalls = 1 /\ makeFound /\ make_rc = 0
        /\ ArtifactSeen
        /\ force_copy \/ (~vanished /\ romAge <= timeout)
        /\ mkdirCalls = 1 /\ copyState = "ok"
        /\ destDir = "dir" /\ destFile = RomContent(rom_path)

C20_Witness ==
    /\ pc = "exit" /\ rc = RcSuccess /\ ~dry_run
    /\ force_copy /\ romAge > timeout
    /\ before.destFile = "rom-old" /\ destFile = RomContent(rom_path)

====
